---- MODULE Spec2Model ----
(***************************************************************************)
(* Model of the USFM converter (src/src/components/USFMConverter.tsx and   *)
(* the App shell).  Texts are sequences of one-character strings so that   *)
(* trim(), includes() and the global RegExp matches of the structural      *)
(* validator are computed character by character, as the JavaScript does.  *)
(* Messages shown to the user are TLA+ strings.                            *)
(***************************************************************************)
EXTENDS Integers, Sequences, FiniteSets, TLC

VARIABLES
    pc,        \* position of the convertToUSFM invocation: idle, fetch, json, done
    text,      \* the text argument of the invocation
    retries,   \* the retries argument of the invocation (never read by the code)
    calls,     \* outbound network calls issued by the invocation
    status,    \* response.status once fetch has resolved, 0 before
    data,      \* what response.json() settled with
    thrown,    \* the value a rejected fetch / json promise carried
    stage,     \* how far the body of convertToUSFM got
    promise,   \* state of the promise returned by convertToUSFM
    result,    \* the ConversionResult the promise was fulfilled with
    input,        \* USFMState.input: the text of the left editor
    output,       \* USFMState.output: the text of the right editor
    isProcessing, \* USFMState.isProcessing
    toast,        \* the message of the last toast shown
    flights,      \* the conversions handleConvert started and still awaits
    convResult,   \* `result` of the handleConvert run that resumed last
    uploads,      \* the handleFileUpload runs that still await the file's text
    apiKey,       \* the apiKey state of App
    stored,       \* localStorage's value under 'openrouter_api_key'
    orphans,      \* conversions still running for an unmounted converter
    seen          \* an earlier finished invocation, kept for comparison

callVars == <<pc, text, retries, calls, status, data, thrown, stage, promise, result>>
uiVars == <<input, output, isProcessing, toast, flights, convResult, uploads>>
appVars == <<apiKey, stored, orphans>>
vars == <<callVars, uiVars, appVars, seen>>

----------------------------------------------------------------------------
(* Bounds of the model.                                                    *)

MaxTextLen == 1
MaxBody == 1
MaxFlights == 2
MaxOrphans == 1
MaxUploads == 1

----------------------------------------------------------------------------
(* Characters and strings.                                                 *)

BS == "\\"
FF == "\f"

\* The characters a string literal cannot hold are written by code point:
\* "U+000B" is the one character VERTICAL TAB.
VT == "U+000B"
NBSP == "U+00A0"
LS == "U+2028"
PS == "U+2029"
BOM == "U+FEFF"

\* The space separators (category Zs) other than U+0020 and U+00A0.
SpaceSeparators ==
    {"U+1680", "U+2000", "U+2001", "U+2002", "U+2003", "U+2004", "U+2005",
     "U+2006", "U+2007", "U+2008", "U+2009", "U+200A", "U+202F", "U+205F",
     "U+3000"}

\* What String.prototype.trim strips: WhiteSpace and LineTerminator.
WhiteSpace ==
    {" ", "\t", VT, FF, NBSP, BOM} \cup SpaceSeparators \cup {"\n", "\r", LS, PS}

RECURSIVE trimStart(_)
trimStart(s) ==
    IF s # <<>> /\ Head(s) \in WhiteSpace THEN trimStart(Tail(s)) ELSE s

RECURSIVE trimEnd(_)
trimEnd(s) ==
    IF s # <<>> /\ s[Len(s)] \in WhiteSpace
    THEN trimEnd(SubSeq(s, 1, Len(s) - 1)) ELSE s

\* A blank check that forgets to trim: `!text`.
trim_omitted(s) == s

\* String.prototype.trim
trim(s) == trimEnd(trimStart(s))

\* String.prototype.includes
includes(s, t) ==
    \E i \in 1..(Len(s) - Len(t) + 1) : SubSeq(s, i, i + Len(t) - 1) = t

----------------------------------------------------------------------------
(* new RegExp(source, 'g'): the pattern is compiled from the marker string. *)
(* A backslash starts an escape: \f is the form feed control escape; a      *)
(* letter that names no escape (\e, and \x without two hex digits) is an    *)
(* identity escape and stands for itself.  A following * is the greedy      *)
(* zero-or-more quantifier.                                                 *)

EscapeChar(c) ==
    CASE c = "f" -> FF
      [] c = "n" -> "\n"
      [] c = "r" -> "\r"
      [] c = "t" -> "\t"
      [] OTHER   -> c

\* The atoms of the pattern, each [ch |-> character, star |-> quantified].
RECURSIVE RegExpAtoms(_)
RegExpAtoms(src) ==
    IF src = <<>> THEN <<>>
    ELSE LET esc  == Head(src) = BS /\ Len(src) >= 2
             ch   == IF esc THEN EscapeChar(src[2]) ELSE Head(src)
             n    == IF esc THEN 2 ELSE 1
             star == Len(src) > n /\ src[n + 1] = "*"
             used == IF star THEN n + 1 ELSE n
         IN  <<[ch |-> ch, star |-> star]>>
                 \o RegExpAtoms(SubSeq(src, used + 1, Len(src)))

\* Length of the run of character ch in s starting at position p.
RECURSIVE RunLength(_, _, _)
RunLength(s, p, ch) ==
    IF p <= Len(s) /\ s[p] = ch THEN 1 + RunLength(s, p + 1, ch) ELSE 0

\* Position just after a match of atoms[k..] that starts at p, 0 when none.
RECURSIVE MatchEnd(_, _, _, _)
RECURSIVE StarEnd(_, _, _, _, _)
MatchEnd(atoms, k, s, p) ==
    IF k > Len(atoms) THEN p
    ELSE IF atoms[k].star
         THEN StarEnd(atoms, k, s, p, RunLength(s, p, atoms[k].ch))
         ELSE IF p <= Len(s) /\ s[p] = atoms[k].ch
              THEN MatchEnd(atoms, k + 1, s, p + 1)
              ELSE 0

\* Greedy quantifier: take n repetitions, give one back on failure.
StarEnd(atoms, k, s, p, n) ==
    LET e == MatchEnd(atoms, k + 1, s, p + n)
    IN  IF e # 0 THEN e
        ELSE IF n = 0 THEN 0
        ELSE StarEnd(atoms, k, s, p, n - 1)

\* Number of matches String.prototype.match collects for a global RegExp,
\* resuming at lastIndex p.  An empty match advances lastIndex by one.
RECURSIVE MatchCountFrom(_, _, _)
MatchCountFrom(atoms, s, p) ==
    IF p > Len(s) + 1 THEN 0
    ELSE LET e == MatchEnd(atoms, 1, s, p)
         IN  IF e = 0 THEN MatchCountFrom(atoms, s, p + 1)
             ELSE 1 + MatchCountFrom(atoms, s, IF e = p THEN p + 1 ELSE e)

\* (convertedText.match(new RegExp(src, 'g')) || []).length
matchCount(convertedText, src) ==
    MatchCountFrom(RegExpAtoms(src), convertedText, 1)

----------------------------------------------------------------------------
(* The values the completion service can hand back.                        *)

\* The error member of the parsed body: in = the key is present, obj = its
\* value is an object, hasMsg = that object has a message member.
ErrorAbsent  == [in |-> FALSE, obj |-> FALSE, hasMsg |-> FALSE, msg |-> ""]
ErrorNull    == [in |-> TRUE,  obj |-> FALSE, hasMsg |-> FALSE, msg |-> ""]
ErrorNoMsg   == [in |-> TRUE,  obj |-> TRUE,  hasMsg |-> FALSE, msg |-> ""]
ErrorEmpty   == [in |-> TRUE,  obj |-> TRUE,  hasMsg |-> TRUE,  msg |-> ""]
ErrorWithMsg == [in |-> TRUE,  obj |-> TRUE,  hasMsg |-> TRUE,
                 msg |-> "Provider returned error"]
ErrorFields  == {ErrorAbsent, ErrorNull, ErrorNoMsg, ErrorEmpty, ErrorWithMsg}

\* The choices member of the parsed body, by how much of
\* choices[0].message.content is there.
ChoiceShapes == {"absent", "null", "empty", "noMessage", "noContent", "content"}

\* A response body: `json` tells what parsing it gives, `raw` is its text
\* when it does not parse (the parsed value is in the other fields).
NoData == [json |-> "none", raw |-> "", error |-> ErrorAbsent,
           choices |-> [shape |-> "absent", content |-> <<>>]]

\* A thrown value: an Error with a message, or some other value.
NoThrown == [raised |-> FALSE, isError |-> FALSE, message |-> ""]
Thrown(isError, message) ==
    [raised |-> TRUE, isError |-> isError, message |-> message]

\* What an unguarded `'error' in data` raises when data is no object.
InOperatorMessage == "Cannot use 'in' operator to search for 'error' in null"
\* Bodies that are no JSON: an empty one, a gateway's error page, plain text.
InvalidBodies == {"", "<html>502 Bad Gateway</html>", "not json"}

\* The message of the SyntaxError response.json() rejects with for the body
\* text raw, as V8 words it.
JsonParseMessage(raw) ==
    CASE raw = "" -> "Unexpected end of JSON input"
      [] raw = "<html>502 Bad Gateway</html>" ->
            "Unexpected token '<', \"<html>502 \"... is not valid JSON"
      [] raw = "not json" ->
            "Unexpected token 'o', \"not json\" is not valid JSON"

----------------------------------------------------------------------------
(* convertToUSFM, from the settled response on.                            *)

DefaultRetries == 3

\* Response.ok
ok(st) == st \in 200..299

\* The || of the fallback is lost: an envelope without a message gives an
\* empty message.
errorMessage_noFallback(d) == d.error.msg

\* const errorMessage = 'error' in data && data.error?.message ? ... : ...
errorMessage(d) ==
    IF d.error.in /\ d.error.obj /\ d.error.hasMsg /\ d.error.msg # ""
    THEN d.error.msg
    ELSE "Failed to convert text"

\* The embedded message wins over the status when there is one.
statusError_embeddedFirst(st, d) ==
    IF d.error.in /\ d.error.obj /\ d.error.hasMsg /\ d.error.msg # ""
    THEN d.error.msg
    ELSE CASE st = 401 -> "Invalid API key. Please check your OpenRouter API key."
           [] st = 429 -> "Rate limit exceeded. Please try again later."
           [] st = 402 -> "Insufficient credits. Please check your OpenRouter account."
           [] st \in {500, 502, 503, 504} ->
                 "OpenRouter API service error. Please try again later."
           [] OTHER -> "Failed to convert text"

\* switch (response.status): the message of the Error thrown.
statusError(st, d) ==
    CASE st = 401 -> "Invalid API key. Please check your OpenRouter API key."
      [] st = 429 -> "Rate limit exceeded. Please try again later."
      [] st = 402 -> "Insufficient credits. Please check your OpenRouter account."
      [] st \in {500, 502, 503, 504} ->
            "OpenRouter API service error. Please try again later."
      [] OTHER -> errorMessage(d)

\* Only the presence of the choices member is checked.
hasCompletion_keyOnly(d) == d.choices.shape # "absent"

\* 'choices' in data && data.choices?.[0]?.message?.content is truthy
hasCompletion(d) ==
    /\ d.choices.shape # "absent"
    /\ d.choices.shape = "content" /\ d.choices.content # <<>>

\* A marker as the string put into messages and as the characters searched.
requiredMarkers ==
    << [str |-> "\\id", chars |-> <<BS, "i", "d">>],
       [str |-> "\\h",  chars |-> <<BS, "h">>],
       [str |-> "\\mt", chars |-> <<BS, "m", "t">>] >>

markerPairs ==
    << [str |-> "\\f",   start |-> <<BS, "f">>,
                         end   |-> <<BS, "f", "*">>],
       [str |-> "\\x",   start |-> <<BS, "x">>,
                         end   |-> <<BS, "x", "*">>],
       [str |-> "\\esb", start |-> <<BS, "e", "s", "b">>,
                         end   |-> <<BS, "e", "s", "b", "e">>] >>

\* find instead of filter: only the first absent marker is kept.
missingMarkers_firstOnly(convertedText) ==
    LET all == SelectSeq(requiredMarkers, LAMBDA m : ~includes(convertedText, m.chars))
    IN  IF all = <<>> THEN <<>> ELSE <<all[1]>>

\* requiredMarkers.filter(marker => !convertedText.includes(marker))
missingMarkers(convertedText) ==
    SelectSeq(requiredMarkers, LAMBDA m : ~includes(convertedText, m.chars))

\* Array.prototype.join(', ') of the markers' strings
RECURSIVE join(_)
join(ms) ==
    IF ms = <<>> THEN ""
    ELSE IF Len(ms) = 1 THEN ms[1].str
    ELSE ms[1].str \o ", " \o join(Tail(ms))

\* The for loop over markerPairs from pair i on: the index of the first pair
\* whose startCount differs from its endCount, 0 when the loop runs out.
RECURSIVE firstMismatch(_, _)
firstMismatch(convertedText, i) ==
    IF i > Len(markerPairs) THEN 0
    ELSE LET startCount == matchCount(convertedText, markerPairs[i].start)
             endCount   == matchCount(convertedText, markerPairs[i].end)
         IN  IF startCount # endCount THEN i
             ELSE firstMismatch(convertedText, i + 1)

\* How a run of the try block ends: an Error thrown at some stage, or the
\* success value returned.
Throw(e, stg) == [thrown |-> e, usfm |-> <<>>, stage |-> stg]
Return(convertedText) ==
    [thrown |-> NoThrown, usfm |-> convertedText, stage |-> "return"]

\* The structural validation of the extracted text.
validate(convertedText) ==
    LET missing == missingMarkers(convertedText)
        bad     == firstMismatch(convertedText, 1)
    IN  IF Len(missing) > 0
        THEN Throw(Thrown(TRUE, "Invalid USFM output: Missing required markers: "
                                    \o join(missing)), "headers")
        ELSE IF bad # 0
        THEN Throw(Thrown(TRUE, "Invalid USFM output: Mismatched "
                                    \o markerPairs[bad].str \o " markers"), "pairs")
        ELSE Return(convertedText)

\* The try block from `await response.json()` on, for status st and the
\* value d that json() settled with.
classify(st, d) ==
    IF d.json = "invalid"
    THEN Throw(Thrown(TRUE, JsonParseMessage(d.raw)), "json")
    ELSE IF d.json = "null"
    THEN Throw(Thrown(TRUE, InOperatorMessage), "classify")
    ELSE IF ~ok(st) \/ d.error.in
    THEN Throw(Thrown(TRUE, statusError(st, d)), "classify")
    ELSE IF ~hasCompletion(d)
    THEN Throw(Thrown(TRUE, "Invalid API response format"), "shape")
    ELSE validate(d.choices.content)

NoResult == [none |-> TRUE]

\* A catch that handles Errors only and rethrows anything else.
settle_rethrow(outcome) ==
    IF outcome.thrown.raised /\ ~outcome.thrown.isError
    THEN [state |-> "rejected", value |-> NoResult]
    ELSE IF outcome.thrown.raised
    THEN [state |-> "fulfilled",
          value |-> [success |-> FALSE, error |-> outcome.thrown.message]]
    ELSE [state |-> "fulfilled",
          value |-> [success |-> TRUE, usfm |-> outcome.usfm]]

\* catch (error) { return {success: false, error: ...} }, or the value the
\* try block returned: how the promise of convertToUSFM settles.
settle(outcome) ==
    IF outcome.thrown.raised
    THEN [state |-> "fulfilled",
          value |-> [success |-> FALSE,
                     error   |-> IF outcome.thrown.isError
                                 THEN outcome.thrown.message
                                 ELSE "An unknown error occurred"]]
    ELSE [state |-> "fulfilled",
          value |-> [success |-> TRUE, usfm |-> outcome.usfm]]

\* A retry loop: a failed attempt is followed by another fetch while the
\* retry count allows.
afterCatch_retry(outcome, r, n) ==
    IF outcome.thrown.raised /\ outcome.stage # "input" /\ n <= r
    THEN "fetch" ELSE "done"

\* Where convertToUSFM goes after its catch block: it returns. The retries
\* parameter r is never read and no attempt follows attempt n.
afterCatch(outcome, r, n) == "done"

----------------------------------------------------------------------------
(* The inputs the model draws from.                                        *)

RECURSIVE SeqsUpTo(_, _)
SeqsUpTo(S, n) ==
    IF n = 0 THEN {<<>>}
    ELSE LET shorter == SeqsUpTo(S, n - 1)
         IN  shorter \cup {Append(q, x) : q \in shorter, x \in S}

RECURSIVE Flatten(_)
Flatten(ss) == IF ss = <<>> THEN <<>> ELSE Head(ss) \o Flatten(Tail(ss))

RECURSIVE FormFeeds(_)
FormFeeds(n) == IF n = 0 THEN <<>> ELSE <<FF>> \o FormFeeds(n - 1)

\* Input texts: blank ones and ones with a visible character.
InputChars == {" ", "a"}
BlankSamples == {<<"\n", VT>>, <<"\t", "\r", FF>>, <<NBSP, LS, "U+3000", BOM>>}
Texts == SeqsUpTo(InputChars, MaxTextLen) \cup BlankSamples

Retries == {0, DefaultRetries}

Statuses == {200, 400, 401, 402, 429, 500, 502, 503, 504}

\* Completion texts: any subset of the header markers, then up to MaxBody
\* pair markers (or the open tokens of two different pairs), then either
\* nothing or a run of form feeds long enough to equal the number of matches
\* of the footnote-close pattern.
HeaderSets == SUBSET (1..Len(requiredMarkers))
Headers(hs) ==
    Flatten([i \in 1..Len(requiredMarkers) |->
                IF i \in hs THEN requiredMarkers[i].chars ELSE <<>>])
PairMarkers ==
    {markerPairs[i].start : i \in 1..Len(markerPairs)}
        \cup {markerPairs[i].end : i \in 1..Len(markerPairs)}
TwoOpenPairs ==
    {Headers(1..Len(requiredMarkers)) \o markerPairs[p[1]].start \o markerPairs[p[2]].start :
        p \in {q \in (1..Len(markerPairs)) \X (1..Len(markerPairs)) : q[1] < q[2]}}
PlainContents ==
    {Headers(hs) \o Flatten(b) : hs \in HeaderSets, b \in SeqsUpTo(PairMarkers, MaxBody)}
        \cup TwoOpenPairs
Contents ==
    PlainContents \cup {c \o FormFeeds(Len(c) + 2) : c \in PlainContents}

Objects ==
    {[json |-> "object", raw |-> "", error |-> e, choices |-> [shape |-> sh, content |-> <<>>]] :
        e \in ErrorFields, sh \in ChoiceShapes}
    \cup
    {[json |-> "object", raw |-> "", error |-> e, choices |-> [shape |-> "content", content |-> c]] :
        e \in ErrorFields, c \in Contents}

NotObjects ==
    {[json |-> "invalid", raw |-> b, error |-> ErrorAbsent,
      choices |-> [shape |-> "absent", content |-> <<>>]] : b \in InvalidBodies}
    \cup
    {[json |-> "null", raw |-> "", error |-> ErrorAbsent,
      choices |-> [shape |-> "absent", content |-> <<>>]]}

Datas == Objects \cup NotObjects

\* What a rejected fetch carries: a TypeError, an Error without message, or
\* (from a stubbed transport) a value that is no Error.
Rejections ==
    {Thrown(TRUE, "Failed to fetch"), Thrown(TRUE, ""), Thrown(FALSE, "")}

----------------------------------------------------------------------------
(* One invocation of convertToUSFM as a record of where it stands, and the *)
(* steps that move it: the synchronous start and the two awaits.           *)

\* An invocation before its first statement.
fresh(t, r) ==
    [pc |-> "idle", text |-> t, retries |-> r, calls |-> 0, status |-> 0,
     data |-> NoData, thrown |-> NoThrown, stage |-> "none",
     promise |-> "pending", result |-> NoResult]

\* A catch block that reports exhausted retries instead of the error caught.
finish_retriesExhausted(f, outcome) ==
    LET s == settle(outcome)
    IN  [f EXCEPT !.stage   = outcome.stage,
                  !.thrown  = outcome.thrown,
                  !.pc      = "done",
                  !.promise = s.state,
                  !.result  = IF f.retries = 0 /\ outcome.thrown.raised
                              THEN [success |-> FALSE, error |-> "Max retries exceeded"]
                              ELSE s.value]

\* The try block of invocation f ended with `outcome`: the promise settles,
\* or control goes back to the fetch.
finish(f, outcome) ==
    LET next == afterCatch(outcome, f.retries, f.calls)
        s    == settle(outcome)
    IN  [f EXCEPT !.stage   = outcome.stage,
                  !.thrown  = outcome.thrown,
                  !.pc      = next,
                  !.calls   = IF next = "fetch" THEN @ + 1 ELSE @,
                  !.promise = IF next = "done" THEN s.state ELSE "pending",
                  !.result  = IF next = "done" /\ s.state = "fulfilled"
                              THEN s.value ELSE NoResult]

\* convertToUSFM(t, r) up to its first await: the blank check, the prompt
\* and the fetch.
begin(t, r) ==
    IF trim(t) = <<>>
    THEN finish(fresh(t, r),
                Throw(Thrown(TRUE, "Input text cannot be empty"), "input"))
    ELSE [fresh(t, r) EXCEPT !.pc = "fetch", !.calls = 1, !.stage = "fetch"]

\* `await fetch(...)` resolves with a response of status st; json() is called.
fetchResolved(f, st) ==
    [f EXCEPT !.status = st, !.pc = "json", !.stage = "json"]

\* `await fetch(...)` rejects with e.
fetchRejected(f, e) == finish(f, Throw(e, "fetch"))

\* `await response.json()` settles with d; the rest of the try block runs.
jsonSettled(f, d) == finish([f EXCEPT !.data = d], classify(f.status, d))

----------------------------------------------------------------------------
(* Spec: convertToUSFM called with any text and retry count against a      *)
(* service that may answer anything.  The variables are the fields of the  *)
(* invocation; the component's state does not take part.                   *)

current ==
    [pc |-> pc, text |-> text, retries |-> retries, calls |-> calls,
     status |-> status, data |-> data, thrown |-> thrown, stage |-> stage,
     promise |-> promise, result |-> result]

Becomes(f) ==
    /\ pc' = f.pc
    /\ text' = f.text
    /\ retries' = f.retries
    /\ calls' = f.calls
    /\ status' = f.status
    /\ data' = f.data
    /\ thrown' = f.thrown
    /\ stage' = f.stage
    /\ promise' = f.promise
    /\ result' = f.result

InitCall ==
    /\ pc = "idle"
    /\ text = <<>>
    /\ retries = DefaultRetries
    /\ calls = 0
    /\ status = 0
    /\ data = NoData
    /\ thrown = NoThrown
    /\ stage = "none"
    /\ promise = "none"
    /\ result = NoResult

InitUI ==
    /\ input = <<>>
    /\ output = <<>>
    /\ isProcessing = FALSE
    /\ toast = "none"
    /\ flights = <<>>
    /\ convResult = NoResult
    /\ uploads = <<>>

\* A value of localStorage.getItem or of the apiKey state: null or a string.
NullKey == [isNull |-> TRUE, value |-> ""]
Key(str) == [isNull |-> FALSE, value |-> str]

\* No invocation kept yet.
NoSeen == [kept |-> FALSE, next |-> FALSE, between |-> FALSE, text |-> <<>>,
           stage |-> "none", status |-> 0, data |-> NoData, result |-> NoResult]

\* The converter is on screen for a key that was entered before.
InitMounted ==
    /\ stored = Key("sk-or-v1")
    /\ apiKey = stored
    /\ orphans = <<>>

Init == InitCall /\ InitUI /\ InitMounted /\ seen = NoSeen

Invoke(t, r) ==
    /\ pc \in {"idle", "done"}
    /\ Becomes(begin(t, r))
    /\ UNCHANGED <<uiVars, appVars, seen>>

FetchResolve(st) ==
    /\ pc = "fetch"
    /\ Becomes(fetchResolved(current, st))
    /\ UNCHANGED <<uiVars, appVars, seen>>

FetchReject(e) ==
    /\ pc = "fetch"
    /\ Becomes(fetchRejected(current, e))
    /\ UNCHANGED <<uiVars, appVars, seen>>

JsonSettle(d) ==
    /\ pc = "json"
    /\ Becomes(jsonSettled(current, d))
    /\ UNCHANGED <<uiVars, appVars, seen>>

Next ==
    \/ \E t \in Texts, r \in Retries : Invoke(t, r)
    \/ \E st \in Statuses : FetchResolve(st)
    \/ \E e \in Rejections : FetchReject(e)
    \/ \E d \in Datas : JsonSettle(d)

Spec == Init /\ [][Next]_vars

----------------------------------------------------------------------------
(* Replies picked one for each way convertToUSFM can end: a body that is   *)
(* no JSON, one that is null, an error object, an object without choices,  *)
(* a completion lacking header markers, a completion with all of them.     *)
(* And two texts, a blank one and one that can be converted.               *)

TextSamples == {<<>>, <<"a">>}

StatusSamples == {200, 401}

RejectionSamples == {Thrown(TRUE, "Failed to fetch")}

DataSamples ==
    NotObjects
    \cup
    {[json |-> "object", raw |-> "", error |-> e, choices |-> [shape |-> "absent", content |-> <<>>]] :
        e \in {ErrorAbsent, ErrorWithMsg}}
    \cup
    {[json |-> "object", raw |-> "", error |-> ErrorAbsent, choices |-> [shape |-> "content", content |-> c]] :
        c \in {Headers({1}), Headers(1..Len(requiredMarkers))}}

----------------------------------------------------------------------------
(* SpecUI: the USFMConverter component.  The editor, the upload and the    *)
(* Convert button act on the component state; every conversion started is  *)
(* an entry of flights until its promise settles and handleConvert resumes.*)
(* React commits the state set in a click handler before the next event is *)
(* dispatched, so the rendered button is read from the state itself.       *)
(* An upload is a run of its own with two awaits; it writes the input when *)
(* the text has been extracted.  Response bodies are the sample ones.      *)

\* A button disabled for blank input only: the processing flag is left out.
convertDisabled_blankOnly(processing, value) == trim(value) = <<>>

\* disabled={state.isProcessing || !state.input.trim()}
convertDisabled(processing, value) == processing \/ trim(value) = <<>>

\* onChange={(value) => setInput(value || '')}
EditInput(v) ==
    /\ input' = v
    /\ UNCHANGED <<output, isProcessing, toast, flights, convResult, uploads>>
    /\ UNCHANGED <<callVars, appVars, seen>>

\* handleFileUpload for a chosen file, up to `await file.arrayBuffer()`.
\* `live` tells whether the component that runs it is still on screen.
HandleFileUpload ==
    /\ Len(uploads) < MaxUploads
    /\ uploads' = Append(uploads, [pc |-> "buffer", live |-> TRUE])
    /\ UNCHANGED <<input, output, isProcessing, toast, flights, convResult>>
    /\ UNCHANGED <<callVars, appVars, seen>>

\* file.arrayBuffer() resolves; `await mammoth.extractRawText(...)` follows.
BufferResolve(i) ==
    /\ uploads[i].pc = "buffer"
    /\ uploads' = [uploads EXCEPT ![i].pc = "extract"]
    /\ UNCHANGED <<input, output, isProcessing, toast, flights, convResult>>
    /\ UNCHANGED <<callVars, appVars, seen>>

\* Either await rejects: the catch block shows its toast.
UploadReject(i) ==
    /\ uploads' = SubSeq(uploads, 1, i - 1) \o SubSeq(uploads, i + 1, Len(uploads))
    /\ toast' = "Failed to read document"
    /\ UNCHANGED <<input, output, isProcessing, flights, convResult>>
    /\ UNCHANGED <<callVars, appVars, seen>>

\* extractRawText resolves with the text v: setInput(result.value), which
\* does nothing for a component that has left the screen, then the toast.
ExtractResolve(i, v) ==
    /\ uploads[i].pc = "extract"
    /\ uploads' = SubSeq(uploads, 1, i - 1) \o SubSeq(uploads, i + 1, Len(uploads))
    /\ input' = IF uploads[i].live THEN v ELSE input
    /\ toast' = "Document uploaded successfully"
    /\ UNCHANGED <<output, isProcessing, flights, convResult>>
    /\ UNCHANGED <<callVars, appVars, seen>>

\* A click on the enabled Convert button: handleConvert up to its await.
HandleConvert ==
    /\ ~convertDisabled(isProcessing, input)
    /\ Len(flights) < MaxFlights
    /\ IF trim(input) = <<>>
       THEN /\ toast' = "Please enter some text to convert"
            /\ UNCHANGED <<isProcessing, flights>>
       ELSE /\ isProcessing' = TRUE
            /\ flights' = Append(flights, begin(input, DefaultRetries))
            /\ toast' = toast
    /\ UNCHANGED <<input, output, convResult, uploads>>
    /\ UNCHANGED <<callVars, appVars, seen>>

\* A handleConvert that clears the flag in the success branch only.
Resume_busyAfterFailure(f) ==
    IF f.result.success /\ f.result.usfm # <<>>
    THEN isProcessing' = FALSE /\ output' = f.result.usfm /\ toast' = "Conversion completed"
    ELSE /\ UNCHANGED <<isProcessing, output>>
         /\ toast' = IF f.result.error # "" THEN f.result.error
                     ELSE "Conversion failed"

\* A handleConvert that shows the submitted text when the conversion failed.
Resume_echoOnFailure(f) ==
    /\ isProcessing' = FALSE
    /\ IF f.result.success /\ f.result.usfm # <<>>
       THEN output' = f.result.usfm /\ toast' = "Conversion completed"
       ELSE /\ output' = f.text
            /\ toast' = IF f.result.error # "" THEN f.result.error
                        ELSE "Conversion failed"

\* handleConvert after `await convertToUSFM(...)` for the settled flight f.
Resume(f) ==
    /\ isProcessing' = FALSE
    /\ IF f.result.success /\ f.result.usfm # <<>>
       THEN output' = f.result.usfm /\ toast' = "Conversion completed"
       ELSE /\ output' = output
            /\ toast' = IF f.result.error # "" THEN f.result.error
                        ELSE "Conversion failed"

\* Flight i moves to g; once its promise is fulfilled it leaves flights and
\* handleConvert resumes in the same turn.
Advance(i, g) ==
    IF g.pc = "done"
    THEN /\ flights' = SubSeq(flights, 1, i - 1) \o SubSeq(flights, i + 1, Len(flights))
         /\ Resume(g)
    ELSE /\ flights' = [flights EXCEPT ![i] = g]
         /\ UNCHANGED <<output, isProcessing, toast>>

UIFetchResolve(i, st) ==
    /\ flights[i].pc = "fetch"
    /\ Advance(i, fetchResolved(flights[i], st))
    /\ UNCHANGED <<input, convResult, uploads>>
    /\ UNCHANGED <<callVars, appVars, seen>>

UIFetchReject(i, e) ==
    /\ flights[i].pc = "fetch"
    /\ Advance(i, fetchRejected(flights[i], e))
    /\ UNCHANGED <<input, convResult, uploads>>
    /\ UNCHANGED <<callVars, appVars, seen>>

UIJsonSettle(i, d) ==
    /\ flights[i].pc = "json"
    /\ Advance(i, jsonSettled(flights[i], d))
    /\ UNCHANGED <<input, convResult, uploads>>
    /\ UNCHANGED <<callVars, appVars, seen>>

NextUI ==
    \/ \E v \in Texts : EditInput(v)
    \/ HandleFileUpload
    \/ \E i \in 1..Len(uploads) : BufferResolve(i)
    \/ \E i \in 1..Len(uploads) : UploadReject(i)
    \/ \E i \in 1..Len(uploads), v \in Texts : ExtractResolve(i, v)
    \/ HandleConvert
    \/ \E i \in 1..Len(flights), st \in Statuses : UIFetchResolve(i, st)
    \/ \E i \in 1..Len(flights), e \in Rejections : UIFetchReject(i, e)
    \/ \E i \in 1..Len(flights), d \in DataSamples : UIJsonSettle(i, d)

SpecUI == Init /\ [][NextUI]_vars

----------------------------------------------------------------------------
(* SpecTwice: convertToUSFM called again and again against a stubbed       *)
(* service.  One finished invocation is kept in `seen`, with two flags     *)
(* telling whether one, and whether more than one, invocation has begun    *)
(* since; the invocation itself reads nothing of it.                       *)

Remember ==
    /\ pc = "done"
    /\ seen' = [kept |-> TRUE, next |-> FALSE, between |-> FALSE, text |-> text,
                stage |-> stage, status |-> status, data |-> data, result |-> result]
    /\ UNCHANGED <<callVars, uiVars, appVars>>

InvokeAgain(t, r) ==
    /\ pc \in {"idle", "done"}
    /\ Becomes(begin(t, r))
    /\ seen' = IF seen.kept
               THEN [seen EXCEPT !.next = TRUE, !.between = seen.next]
               ELSE seen
    /\ UNCHANGED <<uiVars, appVars>>

NextTwice ==
    \/ \E t \in Texts, r \in Retries : InvokeAgain(t, r)
    \/ \E st \in StatusSamples : FetchResolve(st)
    \/ \E e \in RejectionSamples : FetchReject(e)
    \/ \E d \in DataSamples : JsonSettle(d)
    \/ Remember

SpecTwice == Init /\ [][NextTwice]_vars

----------------------------------------------------------------------------
(* SpecPane: the component as in SpecUI, against the sample replies, with  *)
(* the value `result` of handleConvert kept once it has resumed.           *)
(* SpecPaneLive adds that a pending fetch or json() does settle: the       *)
(* continuation of a settled promise is a microtask, which the event loop  *)
(* runs however many editor events are queued.                             *)

\* Flight i moves to g; `const result = await convertToUSFM(...)` binds
\* result when the promise is fulfilled.
Deliver(i, g) ==
    /\ Advance(i, g)
    /\ convResult' = IF g.pc = "done" THEN g.result ELSE convResult
    /\ UNCHANGED <<input, uploads>>
    /\ UNCHANGED <<callVars, appVars, seen>>

PaneFetchResolve(i, st) ==
    /\ flights[i].pc = "fetch"
    /\ Deliver(i, fetchResolved(flights[i], st))

PaneFetchReject(i, e) ==
    /\ flights[i].pc = "fetch"
    /\ Deliver(i, fetchRejected(flights[i], e))

PaneJsonSettle(i, d) ==
    /\ flights[i].pc = "json"
    /\ Deliver(i, jsonSettled(flights[i], d))

PaneSettles ==
    \/ \E i \in 1..Len(flights), st \in StatusSamples : PaneFetchResolve(i, st)
    \/ \E i \in 1..Len(flights), e \in RejectionSamples : PaneFetchReject(i, e)
    \/ \E i \in 1..Len(flights), d \in DataSamples : PaneJsonSettle(i, d)

NextPane ==
    \/ \E v \in Texts : EditInput(v)
    \/ HandleFileUpload
    \/ \E i \in 1..Len(uploads) : BufferResolve(i)
    \/ \E i \in 1..Len(uploads) : UploadReject(i)
    \/ \E i \in 1..Len(uploads), v \in Texts : ExtractResolve(i, v)
    \/ HandleConvert
    \/ PaneSettles

SpecPane == Init /\ [][NextPane]_vars

SpecPaneLive == SpecPane /\ WF_vars(PaneSettles)

----------------------------------------------------------------------------
(* SpecApp: App around the converter.  The key is read from localStorage   *)
(* when App is constructed; handleApiKeySubmit and handleLogout write the  *)
(* storage and the state together.  The converter is rendered for a truthy *)
(* key only; when it leaves the screen its state is discarded, and the     *)
(* conversions it had started run on as orphans whose setState calls have  *)
(* no effect, while their toast still shows (the Toaster belongs to App).  *)
(* ApiKeyInput is not among the sources: onSubmit may hand over any string *)
(* at any time.                                                            *)

KeyStrings == {"", "sk-or-v1", "sk-or-v2"}

\* A converter shown for every key that is not null, the empty one included.
showConverter_nonNull(k) == ~k.isNull

\* {!apiKey ? <ApiKeyInput/> : <USFMConverter/>}
showConverter(k) == ~k.isNull /\ k.value # ""

InitApp ==
    /\ InitCall /\ InitUI /\ seen = NoSeen
    /\ stored \in {NullKey} \cup {Key(k) : k \in KeyStrings}
    /\ apiKey = stored
    /\ orphans = <<>>

\* App renders with the key k: a converter that leaves the screen loses its
\* state and leaves its pending conversions and uploads behind.
Render(k) ==
    IF showConverter(apiKey) /\ ~showConverter(k)
    THEN /\ input' = <<>>
         /\ output' = <<>>
         /\ isProcessing' = FALSE
         /\ flights' = <<>>
         /\ orphans' = orphans \o flights
         /\ uploads' = [i \in 1..Len(uploads) |-> [uploads[i] EXCEPT !.live = FALSE]]
    ELSE UNCHANGED <<input, output, isProcessing, flights, orphans, uploads>>

HandleApiKeySubmit(k) ==
    /\ Len(orphans) + Len(flights) <= MaxOrphans
    /\ stored' = Key(k)
    /\ apiKey' = Key(k)
    /\ Render(Key(k))
    /\ UNCHANGED <<toast, convResult>>
    /\ UNCHANGED <<callVars, seen>>

HandleLogout ==
    /\ Len(orphans) + Len(flights) <= MaxOrphans
    /\ stored' = NullKey
    /\ apiKey' = NullKey
    /\ Render(NullKey)
    /\ UNCHANGED <<toast, convResult>>
    /\ UNCHANGED <<callVars, seen>>

\* Orphan i moves to g; when it is done, handleConvert resumes for a
\* component that is gone and only its toast is seen.
OrphanAdvance(i, g) ==
    /\ IF g.pc = "done"
       THEN /\ orphans' = SubSeq(orphans, 1, i - 1) \o SubSeq(orphans, i + 1, Len(orphans))
            /\ toast' = IF g.result.success /\ g.result.usfm # <<>>
                        THEN "Conversion completed"
                        ELSE IF g.result.error # "" THEN g.result.error
                             ELSE "Conversion failed"
       ELSE /\ orphans' = [orphans EXCEPT ![i] = g]
            /\ toast' = toast
    /\ UNCHANGED <<input, output, isProcessing, flights, convResult, uploads>>
    /\ UNCHANGED <<apiKey, stored>>
    /\ UNCHANGED <<callVars, seen>>

OrphanFetchResolve(i, st) ==
    /\ orphans[i].pc = "fetch"
    /\ OrphanAdvance(i, fetchResolved(orphans[i], st))

OrphanFetchReject(i, e) ==
    /\ orphans[i].pc = "fetch"
    /\ OrphanAdvance(i, fetchRejected(orphans[i], e))

OrphanJsonSettle(i, d) ==
    /\ orphans[i].pc = "json"
    /\ OrphanAdvance(i, jsonSettled(orphans[i], d))

NextApp ==
    \/ \E k \in KeyStrings : HandleApiKeySubmit(k)
    \/ HandleLogout
    \/ \E v \in TextSamples : showConverter(apiKey) /\ EditInput(v)
    \/ showConverter(apiKey) /\ HandleFileUpload
    \/ \E i \in 1..Len(uploads) : BufferResolve(i)
    \/ \E i \in 1..Len(uploads) : UploadReject(i)
    \/ \E i \in 1..Len(uploads), v \in TextSamples : ExtractResolve(i, v)
    \/ showConverter(apiKey) /\ HandleConvert
    \/ \E i \in 1..Len(flights), st \in StatusSamples : UIFetchResolve(i, st)
    \/ \E i \in 1..Len(flights), e \in RejectionSamples : UIFetchReject(i, e)
    \/ \E i \in 1..Len(flights), d \in DataSamples : UIJsonSettle(i, d)
    \/ \E i \in 1..Len(orphans), st \in StatusSamples : OrphanFetchResolve(i, st)
    \/ \E i \in 1..Len(orphans), e \in RejectionSamples : OrphanFetchReject(i, e)
    \/ \E i \in 1..Len(orphans), d \in DataSamples : OrphanJsonSettle(i, d)

SpecApp == InitApp /\ [][NextApp]_vars

----------------------------------------------------------------------------
(* Vocabulary of the properties.                                           *)

Failure(msg) == [success |-> FALSE, error |-> msg]
Success(usfm) == [success |-> TRUE, usfm |-> usfm]

\* Every character of s is white space.
AllWhitespace(s) == \A i \in 1..Len(s) : s[i] \in WhiteSpace

\* Number of literal, non-overlapping occurrences of the string t in s.
RECURSIVE LiteralCount(_, _)
LiteralCount(s, t) ==
    IF Len(s) < Len(t) \/ t = <<>> THEN 0
    ELSE IF SubSeq(s, 1, Len(t)) = t
         THEN 1 + LiteralCount(SubSeq(s, Len(t) + 1, Len(s)), t)
         ELSE LiteralCount(Tail(s), t)

\* The invocation has returned after the body was parsed to a JSON object.
ReturnedObject == pc = "done" /\ data.json = "object"

\* ... and that response was a success status without an error envelope.
ReturnedSuccessBody == ReturnedObject /\ status \in 200..299 /\ ~data.error.in

\* ... and it carried a non-empty completion text.
ReturnedCompletion ==
    ReturnedSuccessBody /\ data.choices.shape = "content" /\ data.choices.content # <<>>

AbsentMarkers(c) ==
    {i \in 1..3 : ~includes(c, requiredMarkers[i].chars)}

\* The pairs whose open and close token occur a different number of times.
Unbalanced(c) ==
    {i \in 1..3 :
        LiteralCount(c, markerPairs[i].start) # LiteralCount(c, markerPairs[i].end)}

LiterallyBalanced(c) ==
    \A i \in 1..3 :
        LiteralCount(c, markerPairs[i].start) = LiteralCount(c, markerPairs[i].end)

----------------------------------------------------------------------------
(* C1: a success response whose content has all three header markers and   *)
(* equal literal counts of the open and close token of every pair makes    *)
(* convertToUSFM return success with usfm equal to that content.           *)
(* The code does not do this: its patterns are built from the unescaped    *)
(* marker strings, so \f counts form feeds and \f* matches at every        *)
(* position, and no content passes both the \f and the \x comparison.      *)
C1_BalancedContentSucceeds ==
    (ReturnedCompletion
        /\ AbsentMarkers(data.choices.content) = {}
        /\ LiterallyBalanced(data.choices.content))
    => result = Success(data.choices.content)

\* What the code does with such content: it never returns success at all.
C1_NeverSucceeds == pc = "done" => result.success = FALSE

(* C2: for every empty or whitespace-only input text convertToUSFM returns *)
(* the failure 'Input text cannot be empty' and issues no network call.    *)
C2_BlankInputFailsWithoutCall ==
    (AllWhitespace(text) /\ pc # "idle")
    => /\ pc = "done"
       /\ calls = 0
       /\ status = 0
       /\ promise = "fulfilled"
       /\ result = Failure("Input text cannot be empty")

C2_Witness ==
    /\ pc = "done"
    /\ text = <<" ">>
    /\ calls = 0
    /\ result = Failure("Input text cannot be empty")

(* C3 as stated: for every response with status 401, whatever its body,    *)
(* convertToUSFM fails with the invalid-credential message.                *)
C3_Original ==
    (pc = "done" /\ status = 401)
    => result = Failure("Invalid API key. Please check your OpenRouter API key.")

(* C3 amended: for every response with status 401 whose body parses to a   *)
(* JSON object, whatever that object contains, convertToUSFM fails with    *)
(* the invalid-credential message.                                         *)
C3_UnauthorizedObjectBody ==
    (ReturnedObject /\ status = 401)
    => result = Failure("Invalid API key. Please check your OpenRouter API key.")

C3_Witness ==
    /\ ReturnedObject
    /\ status = 401
    /\ data.error = ErrorWithMsg
    /\ data.choices.shape = "content"
    /\ result = Failure("Invalid API key. Please check your OpenRouter API key.")

(* C4: every invocation that completes fulfils its promise, never rejects, *)
(* with exactly one variant: success with usfm and no error, or failure    *)
(* with error and no usfm; whatever the input, exception, status and body. *)
C4_ExactlyOneVariant ==
    /\ promise # "rejected"
    /\ pc = "done" =>
          /\ promise = "fulfilled"
          /\ \/ DOMAIN result = {"success", "usfm"} /\ result.success = TRUE
             \/ DOMAIN result = {"success", "error"} /\ result.success = FALSE
    /\ pc # "done" => result = NoResult

C4_Witness ==
    /\ pc = "done"
    /\ thrown.raised /\ ~thrown.isError
    /\ promise = "fulfilled"
    /\ result = Failure("An unknown error occurred")

(* C5 as stated: every success-status response without error envelope      *)
(* whose body lacks the completion shape gives the failure 'Invalid API    *)
(* response format'.  A body that is null, or no JSON at all, has neither  *)
(* envelope nor choices, and fails earlier with another message.           *)
C5_Original ==
    (pc = "done" /\ data.json # "none" /\ status \in 200..299 /\ ~data.error.in
        /\ (data.choices.shape # "content" \/ data.choices.content = <<>>))
    => result = Failure("Invalid API response format")

(* C5 amended: a success-status response whose body parses to a JSON       *)
(* object without error envelope and lacks the completion shape (no        *)
(* choices, choices null or empty, first choice without message, message   *)
(* without content or with empty content) gives the failure 'Invalid API   *)
(* response format'; validation is not reached.                            *)
C5_MalformedResponse ==
    (ReturnedSuccessBody
        /\ (data.choices.shape # "content" \/ data.choices.content = <<>>))
    => /\ result = Failure("Invalid API response format")
       /\ stage = "shape"

C5_Witness ==
    /\ ReturnedSuccessBody
    /\ status = 200
    /\ data.choices.shape = "empty"
    /\ result = Failure("Invalid API response format")

(* C6: when the completion text lacks at least one of \id, \h, \mt the     *)
(* failure message lists exactly the absent markers in the order \id, \h,  *)
(* \mt, separated by ", ".                                                 *)
C6_Listing(absent) ==
    CASE absent = {1}       -> "\\id"
      [] absent = {2}       -> "\\h"
      [] absent = {3}       -> "\\mt"
      [] absent = {1, 2}    -> "\\id, \\h"
      [] absent = {1, 3}    -> "\\id, \\mt"
      [] absent = {2, 3}    -> "\\h, \\mt"
      [] absent = {1, 2, 3} -> "\\id, \\h, \\mt"

C6_MissingMarkersListed ==
    (ReturnedCompletion /\ AbsentMarkers(data.choices.content) # {})
    => /\ result = Failure("Invalid USFM output: Missing required markers: "
                              \o C6_Listing(AbsentMarkers(data.choices.content)))
       /\ stage = "headers"

C6_Witness ==
    /\ ReturnedCompletion
    /\ AbsentMarkers(data.choices.content) = {1, 3}
    /\ result = Failure("Invalid USFM output: Missing required markers: \\id, \\mt")

(* C7: when the completion text has all three header markers and the       *)
(* number of \f tokens differs from the number of \f* tokens,              *)
(* convertToUSFM fails with 'Invalid USFM output: Mismatched \f markers'.  *)
(* The code compares form feeds with the matches of a pattern that matches *)
(* everywhere; a text padded with form feeds passes that comparison.       *)
C7_FootnoteMismatchReported ==
    (ReturnedCompletion
        /\ AbsentMarkers(data.choices.content) = {}
        /\ LiteralCount(data.choices.content, markerPairs[1].start)
              # LiteralCount(data.choices.content, markerPairs[1].end))
    => result = Failure("Invalid USFM output: Mismatched \\f markers")

(* The message C8 names for the current status and body.                   *)
C8_Expected ==
    IF status = 401
    THEN "Invalid API key. Please check your OpenRouter API key."
    ELSE IF status = 429
    THEN "Rate limit exceeded. Please try again later."
    ELSE IF status = 402
    THEN "Insufficient credits. Please check your OpenRouter account."
    ELSE IF status = 500 \/ status = 502 \/ status = 503 \/ status = 504
    THEN "OpenRouter API service error. Please try again later."
    ELSE IF data.error.hasMsg /\ data.error.msg # ""
    THEN data.error.msg
    ELSE "Failed to convert text"

(* C8 as stated: for every parsed response that is non-success or carries  *)
(* an error envelope the message is the one the status fixes.  A body that *)
(* parses to null is a parsed response too, and fails with the TypeError   *)
(* of the `in` operator whatever the status.                               *)
C8_Original ==
    (pc = "done" /\ data.json \in {"object", "null"}
        /\ (status \notin 200..299 \/ data.error.in))
    => result = Failure(C8_Expected)

(* C8 amended: for a response whose body parses to a JSON object and that  *)
(* is non-success or carries an error member the message is fixed by the   *)
(* status: 401, 429, 402, 500/502/503/504 each have their own, whatever    *)
(* the body embeds; any other status gives the embedded error.message when *)
(* present and non-empty, otherwise 'Failed to convert text'.              *)
C8_StatusPriority ==
    (ReturnedObject /\ (status \notin 200..299 \/ data.error.in))
    => /\ result = Failure(C8_Expected)
       /\ stage = "classify"

C8_Witness ==
    /\ ReturnedObject
    /\ status = 200
    /\ data.error = ErrorWithMsg
    /\ data.choices.shape = "content"
    /\ result = Failure("Provider returned error")

(* C9: an invocation issues at most one network call, and exactly one once *)
(* the input is non-blank, whatever retries is and however the call ends.  *)
C9_SingleCall ==
    /\ calls <= 1
    /\ (pc # "idle" /\ ~AllWhitespace(text)) => calls = 1

C9_Witness ==
    /\ pc = "done"
    /\ retries = DefaultRetries
    /\ status = 429
    /\ calls = 1
    /\ result.success = FALSE

(* C10: in the component at most one conversion is in flight at any time:  *)
(* whatever the order of Convert clicks, input edits, uploads and network  *)
(* completions, no second convertToUSFM call starts while an earlier one   *)
(* has not returned, and isProcessing is set exactly while one is pending. *)
C10_AtMostOneInFlight ==
    /\ Len(flights) <= 1
    /\ isProcessing <=> flights # <<>>

C10_Witness ==
    /\ Len(flights) = 1
    /\ flights[1].pc = "json"
    /\ isProcessing
    /\ trim(input) # <<>>

\* The service answered the current invocation (or was never called because
\* the text is blank) with the status and body it answered the kept one.
SameTextAndReply ==
    /\ pc = "done" /\ seen.kept
    /\ stage # "fetch" /\ seen.stage # "fetch"
    /\ text = seen.text
    /\ status = seen.status
    /\ data = seen.data

----------------------------------------------------------------------------
\* C11: two invocations of convertToUSFM with the same input text that get
\* the same status and body from the service return the same
\* ConversionResult (success flag, usfm, error), whatever their retry
\* arguments and whatever invocations ran in between.
C11_SameReplySameResult == SameTextAndReply => result = seen.result

\* A non-blank text converted twice with the same object body, at least one
\* other invocation having begun in between.
C11_Witness ==
    /\ SameTextAndReply
    /\ seen.between
    /\ trim(text) # <<>>
    /\ data.json = "object"
    /\ result = seen.result

----------------------------------------------------------------------------
\* C12: validation stops at the first defect.  A completion text that lacks
\* a header marker and has an unbalanced pair fails with the missing
\* markers only; a text with all header markers and more than one
\* unbalanced pair fails naming only the first unbalanced pair in the order
\* \f, \x, \esb.
\* The first half holds.  The second does not: the code names the first
\* pair whose patterns, built from the unescaped marker strings, give
\* different match counts, and that is \f for every text without form
\* feeds, also one whose \f tokens are balanced.
C12_HeadersBeforePairs ==
    (ReturnedCompletion
        /\ AbsentMarkers(data.choices.content) # {}
        /\ Unbalanced(data.choices.content) # {})
    => result = Failure("Invalid USFM output: Missing required markers: "
                           \o C6_Listing(AbsentMarkers(data.choices.content)))

C12_FirstUnbalancedNamed ==
    (ReturnedCompletion
        /\ AbsentMarkers(data.choices.content) = {}
        /\ Cardinality(Unbalanced(data.choices.content)) > 1)
    => LET first == CHOOSE i \in Unbalanced(data.choices.content) :
                        \A j \in Unbalanced(data.choices.content) : i <= j
       IN  result = Failure("Invalid USFM output: Mismatched "
                               \o markerPairs[first].str \o " markers")

C12_ShortCircuitOrder == C12_HeadersBeforePairs /\ C12_FirstUnbalancedNamed

----------------------------------------------------------------------------
\* C13: once handleConvert has set isProcessing, and given that the network
\* call settles, isProcessing becomes false again, at whatever stage the
\* conversion fails; and isProcessing is true only while a conversion is
\* still awaited, never after convertToUSFM has returned.
C13_ProcessingEnds ==
    /\ isProcessing ~> ~isProcessing
    /\ [](isProcessing => flights # <<>>)

\* A conversion has come back as a validation failure and the flag is off.
C13_Witness ==
    /\ convResult = Failure("Invalid USFM output: Missing required markers: \\h, \\mt")
    /\ toast = convResult.error
    /\ ~isProcessing
    /\ flights = <<>>

----------------------------------------------------------------------------
\* C14: no step of a conversion (the click, the settling of fetch or json(),
\* the resumption of handleConvert) changes the input text; a conversion
\* that returns a failure leaves output as it was; and output changes only
\* in the step in which a conversion returns success, to the usfm returned.
C14_OutputFrame ==
    [][ /\ (flights' # flights => input' = input)
        /\ (Len(flights') < Len(flights) /\ ~convResult'.success
               => output' = output)
        /\ (output' # output
               => /\ Len(flights') < Len(flights)
                  /\ convResult'.success
                  /\ output' = convResult'.usfm) ]_vars

\* A conversion of a non-blank text was refused for its key: the text is
\* still in the editor, the output pane is as before, the error is shown.
C14_Witness ==
    /\ convResult = Failure("Invalid API key. Please check your OpenRouter API key.")
    /\ toast = convResult.error
    /\ trim(input) # <<>>
    /\ output = <<>>
    /\ flights = <<>>

----------------------------------------------------------------------------
\* C15: whatever handleApiKeySubmit and handleLogout calls were made, the
\* apiKey state of App equals what localStorage holds under
\* 'openrouter_api_key' (null when absent); the converter is used (its text
\* edited or uploaded, a conversion and its network call started) only
\* while apiKey is a non-empty string; and handleLogout leaves the key
\* absent from both.
C15_KeyInStepWithStorage ==
    /\ [](apiKey = stored)
    /\ [][(input' # input \/ Len(flights') > Len(flights))
             => (~apiKey.isNull /\ apiKey.value # "")]_vars
    /\ [][HandleLogout => (apiKey' = NullKey /\ stored' = NullKey)]_vars

\* Logged out while a conversion was running: the key is gone from the state
\* and from the storage, the request of the removed converter is still open.
C15_Witness ==
    /\ apiKey = NullKey
    /\ stored = NullKey
    /\ orphans # <<>>
    /\ flights = <<>>

====
